---- MODULE Spec2Model ----
(***************************************************************************)
(* Model of the benchmark data generators:                                 *)
(*   generate_benchmark_data.py  (parquet chunks uploaded to S3)           *)
(*   generate_iceberg_tables.py  (chunks appended to Iceberg tables)       *)
(*                                                                         *)
(* Three levels are specified.                                             *)
(*   Spec / FairSpec : one call of generate_and_upload_table or            *)
(*                     generate_iceberg_table, with the worker pool, the   *)
(*                     submit loop and the as_completed loop step by step. *)
(*   RunSpec         : main / generate_all_tables, one table call per      *)
(*                     step, the call's result computed by the same        *)
(*                     operators the pool level uses.                      *)
(*   ChunkSpec       : one call of process_chunk or process_table_chunk,   *)
(*                     as a function of the table and the chunk id, with   *)
(*                     the ids and foreign keys of the frame it generates. *)
(* Row targets are computed in binary64 floating point, as Python does.    *)
(***************************************************************************)
EXTENDS Integers, Sequences, FiniteSets, TLC

\* ------------------------------------------------------------------------
\* Bounds of the model
\* ------------------------------------------------------------------------
MaxWorkers == 2
MaxChunks == 6
MaxTableArgs == 2

\* I/O failures (to_parquet, upload_file, os.remove, table.append) injected
\* into one table call
MaxFaults == 1

\* Target sizes (GB) the inputs are drawn from: every size up to
\* MaxSmallSize, and the sizes of the documentation.  The float product
\* int(size * ratio * 1_000_000) is one row below the exact product on some
\* of them (3 GB, for instance).
MaxSmallSize == 4

\* A value drawn from a lookup list is taken at one of DrawSteps + 1 evenly
\* spaced positions of the list, the first and the last element included.
DrawSteps == 2
TargetSizes == (0..MaxSmallSize) \cup {50, 100, 250, 1000}

\* ------------------------------------------------------------------------
\* Program constants
\* ------------------------------------------------------------------------
PARQUET_CHUNK_SIZE == 1000000
ICEBERG_CHUNK_SIZE == 500000
estimated_rows_per_gb == 1000000
num_customers == 10000000
num_products == 1000000
num_suppliers == 100000
num_orders == 100000000

\* TABLE_SIZES, in dictionary order
TABLE_SIZES == <<"lineitem", "events", "orders", "customers", "products",
                 "suppliers", "inventory">>

\* ICEBERG_TABLES, in dictionary order
ICEBERG_TABLES == <<"customers", "products", "orders", "lineitem", "events",
                    "inventory", "suppliers">>

TableNames == {TABLE_SIZES[i] : i \in 1..Len(TABLE_SIZES)}

\* TABLE_SIZES[t]: size ratio of a table, in percent (0.60 -> 60)
size_ratio == [lineitem |-> 60, events |-> 20, orders |-> 8, customers |-> 5,
               products |-> 3, suppliers |-> 2, inventory |-> 2]

\* ICEBERG_TABLES[t]['size_ratio'], in percent
iceberg_size_ratio ==
    [customers |-> 5, products |-> 3, orders |-> 8, lineitem |-> 60,
     events |-> 20, inventory |-> 2, suppliers |-> 2]

Min(a, b) == IF a <= b THEN a ELSE b
Max(a, b) == IF a >= b THEN a ELSE b

\* ------------------------------------------------------------------------
\* Float arithmetic
\* ------------------------------------------------------------------------
\* Python floats are IEEE-754 binary64.  A natural number is held as a
\* little-endian sequence of limbs of LimbBits bits, a non-negative float as
\* [m |-> limbs, e |-> exponent] with the value m * 2^e and m < 2^53 + 1.
FLOAT_MANT_DIG == 53
LimbBits == 10
LimbBase == 2^LimbBits

\* limbs the numerator of a literal is scaled by before the division
LiteralScaleLimbs == 7

RECURSIVE LimbsOf(_)
LimbsOf(n) ==
    IF n = 0 THEN << >>
    ELSE <<n % LimbBase>> \o LimbsOf(n \div LimbBase)

RECURSIVE NatOf(_)
NatOf(X) == IF X = << >> THEN 0 ELSE Head(X) + LimbBase * NatOf(Tail(X))

\* without leading zero limbs
RECURSIVE StripLimbs(_)
StripLimbs(X) ==
    IF X = << >> \/ X[Len(X)] # 0 THEN X
    ELSE StripLimbs(SubSeq(X, 1, Len(X) - 1))

\* X + 1
RECURSIVE IncLimbs(_)
IncLimbs(X) ==
    IF X = << >> THEN <<1>>
    ELSE IF Head(X) + 1 < LimbBase THEN <<Head(X) + 1>> \o Tail(X)
    ELSE <<0>> \o IncLimbs(Tail(X))

\* X * n + carry, for n below 2^20
RECURSIVE MulLimbs(_, _, _)
MulLimbs(X, n, carry) ==
    IF X = << >> THEN LimbsOf(carry)
    ELSE LET t == Head(X) * n + carry
         IN  <<t % LimbBase>> \o MulLimbs(Tail(X), n, t \div LimbBase)

\* quotient and remainder of X by d, from the top limb down
RECURSIVE DivLimbs(_, _, _, _)
DivLimbs(X, d, rem, q) ==
    IF X = << >> THEN [q |-> q, r |-> rem]
    ELSE LET cur == rem * LimbBase + X[Len(X)]
         IN  DivLimbs(SubSeq(X, 1, Len(X) - 1), d, cur % d,
                      <<cur \div d>> \o q)

\* bit i of X, bit 0 the lowest
BitAt(X, i) ==
    LET j == i \div LimbBits + 1
    IN  IF j > Len(X) THEN 0 ELSE (X[j] \div 2^(i % LimbBits)) % 2

\* number of bits of X, X without leading zero limbs
BitLength(X) ==
    IF X = << >> THEN 0
    ELSE LimbBits * (Len(X) - 1)
         + (CHOOSE k \in 1..LimbBits :
                2^(k - 1) <= X[Len(X)] /\ X[Len(X)] < 2^k)

\* the LimbBits bits of X from bit i upwards
LimbAt(X, i) ==
    LET a  == i \div LimbBits
        c  == i % LimbBits
        lo == IF a + 1 <= Len(X) THEN X[a + 1] \div 2^c ELSE 0
        hi == IF a + 2 <= Len(X)
              THEN (X[a + 2] % 2^c) * 2^(LimbBits - c)
              ELSE 0
    IN  lo + hi

\* X \div 2^s
ShiftRight(X, s) ==
    LET n == BitLength(X) - s
    IN  IF n <= 0 THEN << >>
        ELSE [j \in 1..((n + LimbBits - 1) \div LimbBits) |->
                 LimbAt(X, s + LimbBits * (j - 1))]

\* The float nearest to X (or to a value between X and X + 1 when sticky),
\* ties to even: the mantissa keeps FLOAT_MANT_DIG bits.
RoundToDouble(X, sticky) ==
    LET s == BitLength(X) - FLOAT_MANT_DIG
    IN  IF s <= 0 THEN [m |-> X, e |-> 0]
        ELSE LET kept  == ShiftRight(X, s)
                 half  == BitAt(X, s - 1)
                 below == sticky \/ \E i \in 0..(s - 2) : BitAt(X, i) = 1
                 up    == half = 1 /\ (below \/ BitAt(X, s) = 1)
             IN  [m |-> IF up THEN IncLimbs(kept) ELSE kept, e |-> s]

\* the float a decimal literal num/den (0.60 = 60/100) denotes
FloatLiteral(num, den) ==
    LET scaled == [i \in 1..LiteralScaleLimbs |-> 0] \o LimbsOf(num)
        dv     == DivLimbs(scaled, den, 0, << >>)
        r      == RoundToDouble(StripLimbs(dv.q), dv.r # 0)
    IN  [m |-> r.m, e |-> r.e - LimbBits * LiteralScaleLimbs]

\* x * n for a float x and an int n
FloatMulInt(x, n) ==
    LET r == RoundToDouble(StripLimbs(MulLimbs(x.m, n, 0)), FALSE)
    IN  [m |-> r.m, e |-> x.e + r.e]

\* int(x)
IntOfFloat(x) ==
    IF x.e >= 0 THEN NatOf(MulLimbs(x.m, 2^x.e, 0))
                ELSE NatOf(ShiftRight(x.m, -x.e))

\* ------------------------------------------------------------------------
\* Rows and chunks of a table call
\* ------------------------------------------------------------------------
\* int(gb * ratio * estimated_rows_per_gb) for the ratio literal 0.<percent>:
\* the product is taken left to right, each factor a float multiplication
FloatTargetRows(percent, gb) ==
    LET table_size_gb == FloatMulInt(FloatLiteral(percent, 100), gb)
    IN  IntOfFloat(FloatMulInt(table_size_gb, estimated_rows_per_gb))

\* FloatTargetRows on the target sizes and ratios of the model, computed
\* once: the triples <<gb, percent, rows>>
TargetRowsOnSizes ==
    LET percents == {size_ratio[t] : t \in DOMAIN size_ratio}
                    \cup {iceberg_size_ratio[t] : t \in DOMAIN iceberg_size_ratio}
    IN  {<<pair[1], pair[2], FloatTargetRows(pair[2], pair[1])>> :
            pair \in TargetSizes \X percents}

RowsOf(percent, gb) ==
    IF \E r \in TargetRowsOnSizes : r[1] = gb /\ r[2] = percent
    THEN (CHOOSE r \in TargetRowsOnSizes : r[1] = gb /\ r[2] = percent)[3]
    ELSE FloatTargetRows(percent, gb)

\* table_size_gb = TARGET_SIZE_GB * size_ratio, then
\* target_rows = int(target_size_gb * estimated_rows_per_gb)
TargetRows(t, gb) == RowsOf(size_ratio[t], gb)

\* target_size_gb = self.target_size_gb * table_config['size_ratio'], then
\* target_rows = int(target_size_gb * estimated_rows_per_gb)
IcebergTargetRows(t, gb) == RowsOf(iceberg_size_ratio[t], gb)

\* as ParquetNumChunks, rounding down
ParquetNumChunksFloor(t, gb) == TargetRows(t, gb) \div PARQUET_CHUNK_SIZE

\* num_chunks = (target_rows + CHUNK_SIZE - 1) // CHUNK_SIZE
ParquetNumChunks(t, gb) ==
    (TargetRows(t, gb) + PARQUET_CHUNK_SIZE - 1) \div PARQUET_CHUNK_SIZE

\* num_chunks = max(1, (target_rows + CHUNK_SIZE - 1) // CHUNK_SIZE)
IcebergNumChunks(t, gb) ==
    Max(1, (IcebergTargetRows(t, gb) + ICEBERG_CHUNK_SIZE - 1)
               \div ICEBERG_CHUNK_SIZE)

NumChunks(g, t, gb) ==
    IF g = "parquet" THEN ParquetNumChunks(t, gb) ELSE IcebergNumChunks(t, gb)

\* ------------------------------------------------------------------------
\* Chunk generators
\* ------------------------------------------------------------------------
\* The id cap a parquet chunk generator applies: 0 stands for "no cap".
ParquetCap(t) ==
    CASE t = "customers" -> num_customers
      [] t = "products"  -> num_products
      [] t = "suppliers" -> num_suppliers
      [] t = "orders"    -> num_orders
      [] OTHER           -> 0

\* actual_size of generate_<table>_chunk(chunk_id, chunk_size)
ParquetActualSize(t, chunk_id, chunk_size) ==
    IF ParquetCap(t) = 0
    THEN chunk_size
    ELSE LET start_id == chunk_id * chunk_size + 1
             end_id   == Min(start_id + chunk_size, ParquetCap(t) + 1)
         IN  end_id - start_id

\* pandas' Timestamp.max, 2262-04-11 23:47:16.854775807, as the day counted
\* from 2000-01-01 and the second of that day
TIMESTAMP_MAX_DAY == 95794
TIMESTAMP_MAX_SECOND == 85636
SECONDS_PER_DAY == 86400

\* The pd.date_range(start=..., periods=actual_size, freq=...) calls of
\* generate_<table>_chunk: the start as the day counted from 2000-01-01,
\* the frequency as periods per day ('1D' 1, '1H' 24, '1T' 1440, '1S' 86400)
ParquetDateRanges(t) ==
    CASE t = "customers" -> {[start |-> 7305, per_day |-> 24],
                             [start |-> 8401, per_day |-> 24]}
      [] t = "products"  -> {[start |-> 6940, per_day |-> 24]}
      [] t = "suppliers" -> {[start |-> 0, per_day |-> 1]}
      [] t = "orders"    -> {[start |-> 8036, per_day |-> 1440],
                             [start |-> 8037, per_day |-> 1440],
                             [start |-> 8040, per_day |-> 1440]}
      [] t = "lineitem"  -> {[start |-> 8036, per_day |-> 1440]}
      [] t = "inventory" -> {[start |-> 8766, per_day |-> 24]}
      [] t = "events"    -> {[start |-> 8766, per_day |-> 86400]}

\* pd.date_range returns the index (TRUE) or raises OutOfBoundsDatetime
\* (FALSE) when its last timestamp, start + (periods - 1) * freq, lies
\* after Timestamp.max
DateRangeOk(r, periods) ==
    \/ periods <= 0
    \/ LET day == r.start + (periods - 1) \div r.per_day
           second == ((periods - 1) % r.per_day)
                         * (SECONDS_PER_DAY \div r.per_day)
       IN  \/ day < TIMESTAMP_MAX_DAY
           \/ day = TIMESTAMP_MAX_DAY /\ second <= TIMESTAMP_MAX_SECOND

\* generate_<table>_chunk returns a frame (TRUE) or raises (FALSE).  Only
\* generate_customers_chunk returns the empty frame when actual_size <= 0;
\* the other capped generators pass actual_size to numpy, which raises
\* ValueError on a negative size.  Every generator raises when one of its
\* date ranges does: generate_suppliers_chunk asks for 100000 days from
\* 2000-01-01 in chunk 0.
ParquetGenerateOk(t, chunk_id, chunk_size) ==
    LET actual_size == ParquetActualSize(t, chunk_id, chunk_size)
    IN  \/ t = "customers" /\ actual_size <= 0
        \/ /\ actual_size >= 0
           /\ \A r \in ParquetDateRanges(t) : DateRangeOk(r, actual_size)

\* The id cap an Iceberg chunk generator applies: 0 stands for "no cap".
IcebergCap(t) ==
    CASE t = "customers" -> num_customers
      [] t = "products"  -> num_products
      [] t = "suppliers" -> num_suppliers
      [] OTHER           -> 0

\* as IcebergActualSize, without the cap
IcebergActualSizeUncapped(t, chunk_id, chunk_size) == chunk_size

\* actual_size of _generate_<table>_data(chunk_id, chunk_size, now)
IcebergActualSize(t, chunk_id, chunk_size) ==
    IF IcebergCap(t) = 0
    THEN chunk_size
    ELSE Min(chunk_size, IcebergCap(t) - chunk_id * chunk_size)

\* df.empty in process_table_chunk
IcebergFrameEmpty(t, chunk_id, chunk_size) ==
    IcebergActualSize(t, chunk_id, chunk_size) <= 0

\* <<first, last>> primary key of generate_<table>_chunk's frame;
\* <<0, 0>> when the frame has no rows
ParquetIds(t, chunk_id, chunk_size) ==
    IF ParquetActualSize(t, chunk_id, chunk_size) <= 0
    THEN <<0, 0>>
    ELSE <<chunk_id * chunk_size + 1,
           chunk_id * chunk_size
               + ParquetActualSize(t, chunk_id, chunk_size)>>

\* as IcebergIds, numbering every chunk from 1
IcebergIdsFromOne(t, chunk_id, chunk_size) ==
    IF IcebergActualSize(t, chunk_id, chunk_size) <= 0
    THEN <<0, 0>>
    ELSE <<1, IcebergActualSize(t, chunk_id, chunk_size)>>

\* <<first, last>> primary key of _generate_<table>_data's frame:
\* list(range(start_id, start_id + actual_size))
IcebergIds(t, chunk_id, chunk_size) ==
    IF IcebergActualSize(t, chunk_id, chunk_size) <= 0
    THEN <<0, 0>>
    ELSE <<chunk_id * chunk_size + 1,
           chunk_id * chunk_size
               + IcebergActualSize(t, chunk_id, chunk_size)>>

\* ------------------------------------------------------------------------
\* Result of a table call from its counters
\* ------------------------------------------------------------------------
\* as ParquetTableSuccess, with a threshold of 80% of the chunks
ParquetThresholdSuccess(done, n) == 5 * done >= 4 * n

\* return completed == num_chunks
ParquetTableSuccess(done, n) == done = n

\* success_rate = completed / num_chunks if num_chunks > 0 else 0
\* return success_rate > 0.8
IcebergTableSuccess(done, n) == n > 0 /\ 5 * done > 4 * n

TableSuccess(g, done, n) ==
    IF g = "parquet" THEN ParquetTableSuccess(done, n)
                     ELSE IcebergTableSuccess(done, n)

\* as CountCompleted, counting a future whatever its value
CountEveryResult(done, r) == done + 1

\* if result: completed += 1
CountCompleted(done, r) == IF r = "True" THEN done + 1 ELSE done

\* as PoolHasIdleWorker, for a pool that starts a thread per work item
PoolStartsAlways(active, max_workers) == TRUE

\* ThreadPoolExecutor(max_workers): a queued work item starts only while
\* fewer than max_workers work items are running
PoolHasIdleWorker(active, max_workers) == active < max_workers

\* ------------------------------------------------------------------------
\* Iceberg table definitions
\* ------------------------------------------------------------------------
\* pa.field(name, type): an arrow field; precision and scale are those of a
\* decimal128 type and 0 otherwise; nullable is pa.field's default
F(n, t, p, s) ==
    [name |-> n, type |-> t, precision |-> p, scale |-> s, nullable |-> TRUE]

\* ICEBERG_TABLES[t]['schema']
arrow_schema(t) ==
    CASE t = "customers" ->
           <<F("customer_id", "int64", 0, 0),
             F("customer_name", "string", 0, 0),
             F("email", "string", 0, 0),
             F("phone", "string", 0, 0),
             F("address", "string", 0, 0),
             F("country", "string", 0, 0),
             F("region", "string", 0, 0),
             F("registration_date", "date32", 0, 0),
             F("credit_score", "int32", 0, 0),
             F("lifetime_value", "float64", 0, 0),
             F("is_premium", "bool", 0, 0),
             F("last_login", "timestamp", 0, 0),
             F("created_at", "timestamp", 0, 0),
             F("updated_at", "timestamp", 0, 0)>>
      [] t = "products" ->
           <<F("product_id", "int64", 0, 0),
             F("product_name", "string", 0, 0),
             F("category", "string", 0, 0),
             F("brand", "string", 0, 0),
             F("price", "decimal128", 10, 2),
             F("cost", "decimal128", 10, 2),
             F("weight", "float32", 0, 0),
             F("dimensions", "string", 0, 0),
             F("description", "string", 0, 0),
             F("supplier_id", "int64", 0, 0),
             F("created_date", "date32", 0, 0),
             F("is_active", "bool", 0, 0),
             F("created_at", "timestamp", 0, 0),
             F("updated_at", "timestamp", 0, 0)>>
      [] t = "orders" ->
           <<F("order_id", "int64", 0, 0),
             F("customer_id", "int64", 0, 0),
             F("order_date", "date32", 0, 0),
             F("ship_date", "date32", 0, 0),
             F("delivery_date", "date32", 0, 0),
             F("order_status", "string", 0, 0),
             F("payment_method", "string", 0, 0),
             F("total_amount", "decimal128", 12, 2),
             F("tax_amount", "decimal128", 10, 2),
             F("shipping_amount", "decimal128", 8, 2),
             F("discount_amount", "decimal128", 8, 2),
             F("country", "string", 0, 0),
             F("region", "string", 0, 0),
             F("created_at", "timestamp", 0, 0),
             F("updated_at", "timestamp", 0, 0)>>
      [] t = "lineitem" ->
           <<F("lineitem_id", "int64", 0, 0),
             F("order_id", "int64", 0, 0),
             F("product_id", "int64", 0, 0),
             F("quantity", "int32", 0, 0),
             F("unit_price", "decimal128", 10, 2),
             F("discount", "float32", 0, 0),
             F("tax", "float32", 0, 0),
             F("extended_price", "decimal128", 12, 2),
             F("discount_amount", "decimal128", 10, 2),
             F("tax_amount", "decimal128", 10, 2),
             F("net_amount", "decimal128", 12, 2),
             F("line_status", "string", 0, 0),
             F("ship_date", "date32", 0, 0),
             F("comment", "string", 0, 0),
             F("created_at", "timestamp", 0, 0),
             F("updated_at", "timestamp", 0, 0)>>
      [] t = "events" ->
           <<F("event_id", "int64", 0, 0),
             F("customer_id", "int64", 0, 0),
             F("event_type", "string", 0, 0),
             F("event_timestamp", "timestamp", 0, 0),
             F("event_date", "date32", 0, 0),
             F("page_url", "string", 0, 0),
             F("user_agent", "string", 0, 0),
             F("ip_address", "string", 0, 0),
             F("country", "string", 0, 0),
             F("device_type", "string", 0, 0),
             F("session_id", "string", 0, 0),
             F("product_id", "int64", 0, 0),
             F("search_query", "string", 0, 0),
             F("created_at", "timestamp", 0, 0)>>
      [] t = "inventory" ->
           <<F("inventory_id", "int64", 0, 0),
             F("product_id", "int64", 0, 0),
             F("supplier_id", "int64", 0, 0),
             F("warehouse_location", "string", 0, 0),
             F("quantity_on_hand", "int32", 0, 0),
             F("quantity_allocated", "int32", 0, 0),
             F("reorder_point", "int32", 0, 0),
             F("reorder_quantity", "int32", 0, 0),
             F("unit_cost", "decimal128", 10, 2),
             F("last_updated", "timestamp", 0, 0),
             F("last_updated_date", "date32", 0, 0),
             F("created_at", "timestamp", 0, 0)>>
      [] t = "suppliers" ->
           <<F("supplier_id", "int64", 0, 0),
             F("supplier_name", "string", 0, 0),
             F("contact_name", "string", 0, 0),
             F("email", "string", 0, 0),
             F("phone", "string", 0, 0),
             F("address", "string", 0, 0),
             F("country", "string", 0, 0),
             F("region", "string", 0, 0),
             F("rating", "float32", 0, 0),
             F("established_date", "date32", 0, 0),
             F("established_year", "int32", 0, 0),
             F("is_verified", "bool", 0, 0),
             F("created_at", "timestamp", 0, 0),
             F("updated_at", "timestamp", 0, 0)>>

\* ICEBERG_TABLES[t]['partition_spec']
partition_spec(t) ==
    CASE t = "customers" -> <<"country", "registration_date">>
      [] t = "products" -> <<"category", "created_date">>
      [] t = "orders" -> <<"country", "order_date">>
      [] t = "lineitem" -> <<"ship_date">>
      [] t = "events" -> <<"event_date", "event_type">>
      [] t = "inventory" -> <<"warehouse_location", "last_updated_date">>
      [] t = "suppliers" -> <<"country", "established_year">>

\* an Iceberg type; precision and scale are those of DecimalType, else 0
IcebergType(name, p, s) == [type |-> name, precision |-> p, scale |-> s]

\* as ConvertArrowTypeToIceberg, without the decimal branch
ConvertWithoutDecimal(a) ==
    IF a.type = "int64" THEN IcebergType("LongType", 0, 0)
    ELSE IF a.type = "int32" THEN IcebergType("IntegerType", 0, 0)
    ELSE IF a.type = "string" THEN IcebergType("StringType", 0, 0)
    ELSE IF a.type = "bool" THEN IcebergType("BooleanType", 0, 0)
    ELSE IF a.type = "float32" THEN IcebergType("FloatType", 0, 0)
    ELSE IF a.type = "float64" THEN IcebergType("DoubleType", 0, 0)
    ELSE IF a.type = "date32" THEN IcebergType("DateType", 0, 0)
    ELSE IF a.type = "timestamp" THEN IcebergType("TimestampType", 0, 0)
    ELSE IcebergType("StringType", 0, 0)

\* _convert_arrow_type_to_iceberg(arrow_type): the first matching branch
ConvertArrowTypeToIceberg(a) ==
    IF a.type = "int64" THEN IcebergType("LongType", 0, 0)
    ELSE IF a.type = "int32" THEN IcebergType("IntegerType", 0, 0)
    ELSE IF a.type = "string" THEN IcebergType("StringType", 0, 0)
    ELSE IF a.type = "bool" THEN IcebergType("BooleanType", 0, 0)
    ELSE IF a.type = "float32" THEN IcebergType("FloatType", 0, 0)
    ELSE IF a.type = "float64" THEN IcebergType("DoubleType", 0, 0)
    ELSE IF a.type = "date32" THEN IcebergType("DateType", 0, 0)
    ELSE IF a.type = "timestamp" THEN IcebergType("TimestampType", 0, 0)
    ELSE IF a.type \in {"decimal128", "decimal256"}
         THEN IcebergType("DecimalType", a.precision, a.scale)
    ELSE IcebergType("StringType", 0, 0)

\* schema.Schema(*[NestedField(field_id=i+1, name=field.name, ...)
\*                 for i, field in enumerate(arrow_schema)])
IcebergSchema(t) ==
    [i \in 1..Len(arrow_schema(t)) |->
        [field_id   |-> i,
         name       |-> arrow_schema(t)[i].name,
         field_type |-> ConvertArrowTypeToIceberg(arrow_schema(t)[i]),
         required   |-> ~arrow_schema(t)[i].nullable]]

\* s.endswith(suffix)
EndsWith(s, suffix) ==
    /\ Len(s) >= Len(suffix)
    /\ SubSeq(s, Len(s) - Len(suffix) + 1, Len(s)) = suffix

\* columns that get the identity transform
IdentityColumns ==
    {"country", "region", "category", "event_type", "warehouse_location"}

\* next(f.field_id for f in iceberg_schema.fields if f.name == col);
\* 0 stands for StopIteration
SourceId(fields, col) ==
    LET hits == {j \in DOMAIN fields : fields[j].name = col}
    IN  IF hits = {} THEN 0
        ELSE fields[CHOOSE j \in hits : \A h \in hits : j <= h].field_id

PartitionField(source, id, tr, n) ==
    [source_id |-> source, field_id |-> id, transform |-> tr, name |-> n]

\* the partition loop of create_iceberg_table, from index i of the list on:
\* a column that matches none of the three branches adds no field
RECURSIVE PartitionFields(_, _, _)
PartitionFields(fields, spec, i) ==
    IF i >= Len(spec) THEN << >>
    ELSE LET col == spec[i + 1]
             rest == PartitionFields(fields, spec, i + 1)
         IN  IF EndsWith(col, "_date")
             THEN <<PartitionField(SourceId(fields, col), 1000 + i, "days",
                                   col \o "_day")>> \o rest
             ELSE IF col \in IdentityColumns
             THEN <<PartitionField(SourceId(fields, col), 1000 + i, "None",
                                   col)>> \o rest
             ELSE IF col = "customer_id"
             THEN <<PartitionField(SourceId(fields, col), 1000 + i,
                                   "bucket[100]", col \o "_bucket")>> \o rest
             ELSE rest

\* a next(...) of the partition loop raises StopIteration
PartitionLoopRaises(t) ==
    \E i \in 1..Len(PartitionFields(IcebergSchema(t), partition_spec(t), 0)) :
        PartitionFields(IcebergSchema(t), partition_spec(t), 0)[i].source_id = 0

\* ------------------------------------------------------------------------
\* File names and object keys
\* ------------------------------------------------------------------------
\* --prefix default
S3_PREFIX == "benchmark-data"

DigitChars == <<"0", "1", "2", "3", "4", "5", "6", "7", "8", "9">>

\* str(n) for n >= 0
RECURSIVE Decimal(_)
Decimal(n) ==
    IF n < 10 THEN DigitChars[n + 1]
              ELSE Decimal(n \div 10) \o DigitChars[(n % 10) + 1]

\* s.rjust(width, "0")
RECURSIVE ZeroPad(_, _)
ZeroPad(s, width) == IF Len(s) >= width THEN s ELSE ZeroPad("0" \o s, width)

\* as FormatChunkId, without the padding
FormatChunkIdPlain(k) == Decimal(k)

\* f"{chunk_id:06d}"
FormatChunkId(k) == ZeroPad(Decimal(k), 6)

\* filename = f"{table_name}_chunk_{chunk_id:06d}.parquet"
Filename(t, k) == t \o "_chunk_" \o FormatChunkId(k) \o ".parquet"

\* local_path = f"/tmp/{filename}"
LocalPath(t, k) == "/tmp/" \o Filename(t, k)

\* s3_key = f"{self.s3_prefix}/{table_name}/{filename}"
S3Key(prefix, t, k) == prefix \o "/" \o t \o "/" \o Filename(t, k)

\* ------------------------------------------------------------------------
\* State
\* ------------------------------------------------------------------------
VARIABLES
    generator,        \* "parquet" (DataGenerator) or "iceberg"
    target_size_gb,   \* TARGET_SIZE_GB / self.target_size_gb
    num_workers,      \* self.num_workers
    table_name,       \* table of the current table call
    \* -- one table call (Spec)
    pc,               \* position of the calling thread in the table call
    num_chunks,       \* local num_chunks
    chunk_id,         \* loop variable of the submit loop
    status,           \* per chunk: position of its work item
    result,           \* per chunk: value of its future
    submit_count,     \* per chunk: times executor.submit was called for it
    process_count,    \* per chunk: times a worker started processing it
    yielded,          \* futures as_completed has yielded so far
    completed,        \* local completed
    pbar,             \* pbar.n, the progress counter
    success,          \* return value of the table call
    local_files,      \* paths that exist under /tmp
    s3_objects,       \* keys uploaded to the bucket
    iceberg_schema,   \* local iceberg_schema of create_iceberg_table
    partition_fields, \* local partition_fields of create_iceberg_table
    \* -- one run of main (RunSpec)
    rpc,              \* position of main
    table_args,       \* args.table / args.tables; << >> stands for None
    tables_to_generate, \* local tables_to_generate
    table_idx,        \* entries of tables_to_generate the loop has passed
    attempted,        \* tables a table call was made for, in call order
    outcomes,         \* return value of each of these calls
    successful_tables, \* local successful_tables (Iceberg)
    io_failed,        \* some chunk of the run failed in a write or an upload
    all_ret,          \* return value of generate_all_tables
    manifest_uploaded, \* <prefix>/data_manifest.json was uploaded
    exit_code,        \* return value of main
    \* -- one call of the chunk function (ChunkSpec)
    cpc,              \* position of the call
    fn_chunk_id,      \* chunk_id the function is called with
    first_id,         \* first primary key of the frame, 0 if none
    last_id,          \* last primary key of the frame, 0 if none
    fk_drawn,         \* per referenced table: largest foreign key of the
                      \* frame, 0 if the frame holds none
    chunk_fault,      \* a write, an upload or a remove of the call failed
    chunk_ret         \* return value of the call

callArgs == <<generator, target_size_gb, num_workers, table_name>>

poolVars == <<pc, num_chunks, chunk_id, status, result, submit_count,
              process_count, yielded, completed, pbar, success,
              local_files, s3_objects, iceberg_schema, partition_fields>>

fsVars == <<local_files, s3_objects>>

tableVars == <<iceberg_schema, partition_fields>>

runVars == <<rpc, table_args, tables_to_generate, table_idx, attempted,
             outcomes, successful_tables, io_failed, all_ret,
             manifest_uploaded, exit_code>>

chunkVars == <<cpc, fn_chunk_id, first_id, last_id, fk_drawn, chunk_fault,
               chunk_ret>>

\* what the steps of a table call leave alone
frame == <<generator, target_size_gb, num_workers, table_name, runVars,
           chunkVars>>

vars == <<callArgs, poolVars, runVars, chunkVars>>

\* no table call is being followed step by step
PoolAtRest ==
    /\ pc = "start"
    /\ num_chunks = 0
    /\ chunk_id = 0
    /\ status = << >>
    /\ result = << >>
    /\ submit_count = << >>
    /\ process_count = << >>
    /\ yielded = {}
    /\ completed = 0
    /\ pbar = 0
    /\ success = "none"
    /\ local_files = {}
    /\ s3_objects = {}
    /\ iceberg_schema = << >>
    /\ partition_fields = << >>

\* main has not been entered
RunAtRest ==
    /\ rpc = "idle"
    /\ table_args = << >>
    /\ tables_to_generate = << >>
    /\ table_idx = 0
    /\ attempted = << >>
    /\ outcomes = << >>
    /\ successful_tables = 0
    /\ io_failed = FALSE
    /\ all_ret = "none"
    /\ manifest_uploaded = FALSE
    /\ exit_code = "none"

\* tables that foreign keys refer to
RefTables == {"customers", "products", "suppliers", "orders"}

\* no call of the chunk function is being followed
ChunkAtRest ==
    /\ cpc = "idle"
    /\ fn_chunk_id = 0
    /\ first_id = 0
    /\ last_id = 0
    /\ fk_drawn = [ref \in RefTables |-> 0]
    /\ chunk_fault = FALSE
    /\ chunk_ret = "none"

ChunkIds == 0 .. (num_chunks - 1)

RunningSteps == {"generate", "to_parquet", "upload_file", "remove", "append"}

Running == {k \in DOMAIN status : status[k] \in RunningSteps}

\* ------------------------------------------------------------------------
\* One table call
\* ------------------------------------------------------------------------
Init ==
    /\ generator \in {"parquet", "iceberg"}
    /\ table_name \in TableNames
    /\ target_size_gb \in TargetSizes
    /\ NumChunks(generator, table_name, target_size_gb) <= MaxChunks
    /\ num_workers \in 1..MaxWorkers
    /\ PoolAtRest
    /\ RunAtRest
    /\ ChunkAtRest

\* Entry of the call up to `with ThreadPoolExecutor(...)`: the chunk
\* arithmetic and, for Iceberg, create_iceberg_table, which returns the table
\* or re-raises the catalog's error.
EnterPool(n) ==
    /\ num_chunks' = n
    /\ chunk_id' = 0
    /\ status' = [k \in 0..(n - 1) |-> "unsubmitted"]
    /\ result' = [k \in 0..(n - 1) |-> "none"]
    /\ submit_count' = [k \in 0..(n - 1) |-> 0]
    /\ process_count' = [k \in 0..(n - 1) |-> 0]
    /\ pc' = "submit"
    /\ UNCHANGED <<frame, fsVars, yielded, completed, pbar, success>>

BeginParquet ==
    /\ pc = "start"
    /\ generator = "parquet"
    /\ EnterPool(ParquetNumChunks(table_name, target_size_gb))
    /\ UNCHANGED tableVars

BeginIceberg ==
    /\ pc = "start"
    /\ generator = "iceberg"
    /\ ~PartitionLoopRaises(table_name)
    /\ iceberg_schema' = IcebergSchema(table_name)
    /\ partition_fields' =
           PartitionFields(IcebergSchema(table_name),
                           partition_spec(table_name), 0)
    /\ EnterPool(IcebergNumChunks(table_name, target_size_gb))

CreateTableRaises ==
    /\ pc = "start"
    /\ generator = "iceberg"
    /\ pc' = "raised"
    /\ UNCHANGED <<frame, tableVars, fsVars, num_chunks, chunk_id, status,
                   result, submit_count,
                   process_count, yielded, completed, pbar, success>>

\* for chunk_id in range(num_chunks): futures.append(executor.submit(...))
Submit ==
    /\ pc = "submit"
    /\ chunk_id < num_chunks
    /\ status' = [status EXCEPT ![chunk_id] = "queued"]
    /\ submit_count' = [submit_count EXCEPT ![chunk_id] = @ + 1]
    /\ chunk_id' = chunk_id + 1
    /\ UNCHANGED <<frame, tableVars, fsVars, pc,
                   num_chunks, result, process_count, yielded, completed,
                   pbar, success>>

\* completed = 0; with tqdm(total=num_chunks) as pbar:
StartMonitor ==
    /\ pc = "submit"
    /\ chunk_id = num_chunks
    /\ completed' = 0
    /\ pbar' = 0
    /\ pc' = "collect"
    /\ UNCHANGED <<frame, tableVars, fsVars, num_chunks, chunk_id, status,
                   result, submit_count,
                   process_count, yielded, success>>

\* A worker thread takes the oldest queued work item.
WorkerStart(k) ==
    /\ k \in DOMAIN status
    /\ status[k] = "queued"
    /\ \A j \in DOMAIN status : j < k => status[j] # "queued"
    /\ PoolHasIdleWorker(Cardinality(Running), num_workers)
    /\ status' = [status EXCEPT ![k] = "generate"]
    /\ process_count' = [process_count EXCEPT ![k] = @ + 1]
    /\ UNCHANGED <<frame, tableVars, fsVars, pc,
                   num_chunks, chunk_id, result, submit_count, yielded,
                   completed, pbar, success>>

\* The work item of chunk k moves to its next step.
Advance(k, step) ==
    /\ status' = [status EXCEPT ![k] = step]
    /\ UNCHANGED <<frame, tableVars, pc,
                   num_chunks, chunk_id, result, submit_count, process_count,
                   yielded, completed, pbar, success>>

\* The work item of chunk k ends and its future gets the value r.
Finish(k, r) ==
    /\ status' = [status EXCEPT ![k] = "done"]
    /\ result' = [result EXCEPT ![k] = r]
    /\ UNCHANGED <<frame, tableVars, pc,
                   num_chunks, chunk_id, submit_count, process_count,
                   yielded, completed, pbar, success>>

\* chunks of this table call that failed in an I/O step
IoFailedChunks ==
    {k \in DOMAIN result :
        /\ result[k] = "False"
        /\ generator = "parquet" =>
               ParquetGenerateOk(table_name, k, PARQUET_CHUNK_SIZE)}

\* an I/O step may still raise
MayFail == Cardinality(IoFailedChunks) < MaxFaults

\* process_chunk: df = generate_func(chunk_id, chunk_size)
ParquetGenerate(k) ==
    /\ generator = "parquet"
    /\ k \in DOMAIN status
    /\ status[k] = "generate"
    /\ IF ParquetGenerateOk(table_name, k, PARQUET_CHUNK_SIZE)
       THEN Advance(k, "to_parquet")
       ELSE Finish(k, "False")
    /\ UNCHANGED fsVars

\* process_chunk: df.to_parquet(local_path, ...).  When it raises, the file
\* it was writing may or may not be left behind.
ToParquet(k) ==
    /\ generator = "parquet"
    /\ k \in DOMAIN status
    /\ status[k] = "to_parquet"
    /\ \/ /\ Advance(k, "upload_file")
          /\ local_files' = local_files \cup {LocalPath(table_name, k)}
       \/ /\ MayFail
          /\ Finish(k, "False")
          /\ local_files' = local_files \cup {LocalPath(table_name, k)}
       \/ /\ MayFail
          /\ Finish(k, "False")
          /\ UNCHANGED local_files
    /\ UNCHANGED s3_objects

\* as UploadFile, going on to os.remove after a failed upload
UploadFileIgnoringError(k) ==
    /\ generator = "parquet"
    /\ k \in DOMAIN status
    /\ status[k] = "upload_file"
    /\ Advance(k, "remove")
    /\ \/ s3_objects' = s3_objects \cup {S3Key(S3_PREFIX, table_name, k)}
       \/ UNCHANGED s3_objects
    /\ UNCHANGED local_files

\* process_chunk: self.s3_client.upload_file(local_path, bucket, s3_key)
UploadFile(k) ==
    /\ generator = "parquet"
    /\ k \in DOMAIN status
    /\ status[k] = "upload_file"
    /\ \/ /\ Advance(k, "remove")
          /\ s3_objects' = s3_objects \cup {S3Key(S3_PREFIX, table_name, k)}
       \/ /\ MayFail
          /\ Finish(k, "False")
          /\ UNCHANGED s3_objects
    /\ UNCHANGED local_files

\* process_chunk: os.remove(local_path); return True
RemoveLocal(k) ==
    /\ generator = "parquet"
    /\ k \in DOMAIN status
    /\ status[k] = "remove"
    /\ \/ /\ Finish(k, "True")
          /\ local_files' = local_files \ {LocalPath(table_name, k)}
       \/ /\ MayFail
          /\ Finish(k, "False")
          /\ UNCHANGED local_files
    /\ UNCHANGED s3_objects

\* process_table_chunk: df = generate_table_data(...); if df.empty: return True
IcebergGenerate(k) ==
    /\ generator = "iceberg"
    /\ k \in DOMAIN status
    /\ status[k] = "generate"
    /\ IF IcebergFrameEmpty(table_name, k, ICEBERG_CHUNK_SIZE)
       THEN Finish(k, "True")
       ELSE Advance(k, "append")
    /\ UNCHANGED fsVars

\* process_table_chunk: success = write_to_iceberg_table(table, df)
IcebergAppend(k) ==
    /\ generator = "iceberg"
    /\ k \in DOMAIN status
    /\ status[k] = "append"
    /\ \/ Finish(k, "True")
       \/ MayFail /\ Finish(k, "False")
    /\ UNCHANGED fsVars

\* as Collect, resubmitting a chunk whose future holds False
CollectResubmitting ==
    /\ pc = "collect"
    /\ \E k \in ChunkIds \ yielded :
        /\ status[k] = "done"
        /\ IF result[k] = "False"
           THEN /\ status' = [status EXCEPT ![k] = "queued"]
                /\ result' = [result EXCEPT ![k] = "none"]
                /\ submit_count' = [submit_count EXCEPT ![k] = @ + 1]
                /\ UNCHANGED <<yielded, completed, pbar>>
           ELSE /\ yielded' = yielded \cup {k}
                /\ completed' = CountCompleted(completed, result[k])
                /\ pbar' = pbar + 1
                /\ UNCHANGED <<status, result, submit_count>>
    /\ UNCHANGED <<frame, tableVars, fsVars, pc, num_chunks, chunk_id,
                   process_count, success>>

\* One iteration of `for future in as_completed(futures)`: a finished future
\* not yet yielded is yielded, in any order.
Collect ==
    /\ pc = "collect"
    /\ \E k \in ChunkIds \ yielded :
        /\ status[k] = "done"
        /\ yielded' = yielded \cup {k}
        /\ completed' = CountCompleted(completed, result[k])
        /\ pbar' = pbar + 1
    /\ UNCHANGED <<frame, tableVars, fsVars, pc,
                   num_chunks, chunk_id, status, result, submit_count,
                   process_count, success>>

\* as AsCompletedExhausted, for a loop that breaks at the first failed chunk
AsCompletedStopsOnFailure(seen, ids) ==
    seen = ids \/ \E k \in seen : result[k] = "False"

\* `for future in as_completed(futures)` ends when every future was yielded
AsCompletedExhausted(seen, ids) == seen = ids

\* The loop and both `with` blocks end; the call returns its verdict.
Return ==
    /\ pc = "collect"
    /\ AsCompletedExhausted(yielded, ChunkIds)
    /\ success' = IF TableSuccess(generator, completed, num_chunks)
                  THEN "True" ELSE "False"
    /\ pc' = "returned"
    /\ UNCHANGED <<frame, tableVars, fsVars, num_chunks, chunk_id, status,
                   result, submit_count,
                   process_count, yielded, completed, pbar>>

MainStep ==
    \/ BeginParquet
    \/ BeginIceberg
    \/ CreateTableRaises
    \/ Submit
    \/ StartMonitor
    \/ Collect
    \/ Return

WorkerStep(k) ==
    \/ WorkerStart(k)
    \/ ParquetGenerate(k)
    \/ ToParquet(k)
    \/ UploadFile(k)
    \/ RemoveLocal(k)
    \/ IcebergGenerate(k)
    \/ IcebergAppend(k)

Next ==
    \/ MainStep
    \/ \E k \in 0..MaxChunks : WorkerStep(k)

Spec == Init /\ [][Next]_vars

\* The calling thread and every worker keep running while they can.
FairSpec ==
    /\ Spec
    /\ WF_vars(MainStep)
    /\ \A k \in 0..MaxChunks : WF_vars(WorkerStep(k))

\* ------------------------------------------------------------------------
\* One run of main.  A table call is one step here: its verdict is computed
\* from the chunks' outcomes by the operators above.
\* ------------------------------------------------------------------------
BoolStr(b) == IF b THEN "True" ELSE "False"

\* names --table / --tables may carry: argparse does not validate them
ArgNames == TableNames \cup {"unknown"}

TableArgLists == UNION {[1..n -> ArgNames] : n \in 1..MaxTableArgs}

\* `t in TABLE_SIZES` / `table_name not in ICEBERG_TABLES`
KnownTable(t) == t \in TableNames

\* the chunk's processing can return True
ChunkCanSucceed(g, t, k) ==
    IF g = "parquet" THEN ParquetGenerateOk(t, k, PARQUET_CHUNK_SIZE)
                     ELSE TRUE

\* the chunk's processing reaches a write, an upload or an append
ChunkDoesIO(g, t, k) ==
    IF g = "parquet" THEN ParquetGenerateOk(t, k, PARQUET_CHUNK_SIZE)
                     ELSE ~IcebergFrameEmpty(t, k, ICEBERG_CHUNK_SIZE)

\* The verdicts a table call can return: f of the chunks that reach their
\* I/O fail there, the chunks whose generator raises fail always.
TableCallOutcomes(g, t, gb) ==
    LET n   == NumChunks(g, t, gb)
        can == {k \in 0..(n - 1) : ChunkCanSucceed(g, t, k)}
        io  == {k \in 0..(n - 1) : ChunkDoesIO(g, t, k)}
    IN  {[ret |-> BoolStr(TableSuccess(g, Cardinality(can) - f, n)),
          io  |-> f > 0] : f \in 0..Cardinality(io)}

RunInit ==
    /\ generator \in {"parquet", "iceberg"}
    /\ target_size_gb \in TargetSizes
    /\ num_workers \in 1..MaxWorkers
    /\ table_name = ""
    /\ PoolAtRest
    /\ ChunkAtRest
    /\ rpc = "head_bucket"
    /\ table_args \in {<< >>} \cup TableArgLists
    /\ tables_to_generate = << >>
    /\ table_idx = 0
    /\ attempted = << >>
    /\ outcomes = << >>
    /\ successful_tables = 0
    /\ io_failed = FALSE
    /\ all_ret = "none"
    /\ manifest_uploaded = FALSE
    /\ exit_code = "none"

\* main returns code
Exit(code) ==
    /\ exit_code' = code
    /\ rpc' = "exited"

\* s3_client.head_bucket(Bucket=...) succeeds
HeadBucketOk ==
    /\ rpc = "head_bucket"
    /\ rpc' = IF generator = "parquet" THEN "select" ELSE "all_start"
    /\ UNCHANGED <<callArgs, poolVars, chunkVars, table_args, tables_to_generate,
                   table_idx, attempted, outcomes, successful_tables,
                   io_failed, all_ret, manifest_uploaded, exit_code>>

\* s3_client.head_bucket raises: return 1
HeadBucketFails ==
    /\ rpc = "head_bucket"
    /\ Exit("1")
    /\ UNCHANGED <<callArgs, poolVars, chunkVars, table_args, tables_to_generate,
                   table_idx, attempted, outcomes, successful_tables,
                   io_failed, all_ret, manifest_uploaded>>

\* generate_benchmark_data.main: `if args.table:` and the filter on it
SelectTables ==
    /\ rpc = "select"
    /\ generator = "parquet"
    /\ IF table_args # << >>
       THEN LET filtered == SelectSeq(table_args, KnownTable)
            IN  IF filtered = << >>
                THEN /\ Exit("1")
                     /\ UNCHANGED tables_to_generate
                ELSE /\ tables_to_generate' = filtered
                     /\ rpc' = "table_loop"
                     /\ UNCHANGED exit_code
       ELSE /\ tables_to_generate' = TABLE_SIZES
            /\ rpc' = "all_tables_loop"
            /\ UNCHANGED exit_code
    /\ UNCHANGED <<callArgs, poolVars, chunkVars, table_args, table_idx,
                   attempted,
                   outcomes, successful_tables, io_failed, all_ret,
                   manifest_uploaded>>

\* generate_benchmark_data.main: one iteration of
\* `for table_name in tables_to_generate`
MainTableStep ==
    /\ rpc = "table_loop"
    /\ table_idx < Len(tables_to_generate)
    /\ LET t == tables_to_generate[table_idx + 1]
       IN  \E o \in TableCallOutcomes(generator, t, target_size_gb) :
            /\ table_name' = t
            /\ attempted' = Append(attempted, t)
            /\ outcomes' = Append(outcomes, o.ret)
            /\ io_failed' = (io_failed \/ o.io)
            /\ IF o.ret = "False"
               THEN /\ Exit("1")
                    /\ UNCHANGED table_idx
               ELSE /\ table_idx' = table_idx + 1
                    /\ rpc' = IF table_idx + 1 = Len(tables_to_generate)
                              THEN "manifest" ELSE "table_loop"
                    /\ UNCHANGED exit_code
    /\ UNCHANGED <<generator, target_size_gb, num_workers, poolVars, chunkVars,
                   table_args, tables_to_generate, successful_tables,
                   all_ret, manifest_uploaded>>

\* as AllTablesStep, going on to the next table after a failed one
AllTablesStepContinuing ==
    /\ rpc = "all_tables_loop"
    /\ table_idx < Len(tables_to_generate)
    /\ LET t == tables_to_generate[table_idx + 1]
       IN  \E o \in TableCallOutcomes(generator, t, target_size_gb) :
            /\ table_name' = t
            /\ attempted' = Append(attempted, t)
            /\ outcomes' = Append(outcomes, o.ret)
            /\ io_failed' = (io_failed \/ o.io)
            /\ table_idx' = table_idx + 1
            /\ IF table_idx + 1 = Len(tables_to_generate)
               THEN /\ all_ret' = BoolStr(\A i \in 1..Len(outcomes') :
                                              outcomes'[i] = "True")
                    /\ rpc' = "all_returned"
               ELSE UNCHANGED <<all_ret, rpc>>
    /\ UNCHANGED <<generator, target_size_gb, num_workers, poolVars, chunkVars,
                   table_args, tables_to_generate, successful_tables,
                   manifest_uploaded, exit_code>>

\* DataGenerator.generate_all_tables: one iteration of
\* `for table_name, size_ratio in TABLE_SIZES.items()`
AllTablesStep ==
    /\ rpc = "all_tables_loop"
    /\ table_idx < Len(tables_to_generate)
    /\ LET t == tables_to_generate[table_idx + 1]
       IN  \E o \in TableCallOutcomes(generator, t, target_size_gb) :
            /\ table_name' = t
            /\ attempted' = Append(attempted, t)
            /\ outcomes' = Append(outcomes, o.ret)
            /\ io_failed' = (io_failed \/ o.io)
            /\ IF o.ret = "False"
               THEN /\ all_ret' = "False"
                    /\ rpc' = "all_returned"
                    /\ UNCHANGED table_idx
               ELSE /\ table_idx' = table_idx + 1
                    /\ IF table_idx + 1 = Len(tables_to_generate)
                       THEN /\ all_ret' = "True"
                            /\ rpc' = "all_returned"
                       ELSE UNCHANGED <<all_ret, rpc>>
    /\ UNCHANGED <<generator, target_size_gb, num_workers, poolVars, chunkVars,
                   table_args, tables_to_generate, successful_tables,
                   manifest_uploaded, exit_code>>

\* as MainAfterAllTables, writing the manifest whatever the verdict
MainAfterAllTablesAlways ==
    /\ rpc = "all_returned"
    /\ generator = "parquet"
    /\ rpc' = "manifest"
    /\ UNCHANGED exit_code
    /\ UNCHANGED <<callArgs, poolVars, chunkVars, table_args, tables_to_generate,
                   table_idx, attempted, outcomes, successful_tables,
                   io_failed, all_ret, manifest_uploaded>>

\* generate_benchmark_data.main: `if generator.generate_all_tables():`
MainAfterAllTables ==
    /\ rpc = "all_returned"
    /\ generator = "parquet"
    /\ IF all_ret = "True"
       THEN /\ rpc' = "manifest"
            /\ UNCHANGED exit_code
       ELSE Exit("1")
    /\ UNCHANGED <<callArgs, poolVars, chunkVars, table_args, tables_to_generate,
                   table_idx, attempted, outcomes, successful_tables,
                   io_failed, all_ret, manifest_uploaded>>

\* create_manifest_file uploads the manifest; main returns 0
CreateManifest ==
    /\ rpc = "manifest"
    /\ manifest_uploaded' = TRUE
    /\ Exit("0")
    /\ UNCHANGED <<callArgs, poolVars, chunkVars, table_args, tables_to_generate,
                   table_idx, attempted, outcomes, successful_tables,
                   io_failed, all_ret>>

\* create_manifest_file raises in open, json.dump or upload_file; main does
\* not catch it
CreateManifestRaises ==
    /\ rpc = "manifest"
    /\ Exit("exception")
    /\ UNCHANGED <<callArgs, poolVars, chunkVars, table_args, tables_to_generate,
                   table_idx, attempted, outcomes, successful_tables,
                   io_failed, all_ret, manifest_uploaded>>

\* create_manifest_file raises in os.remove(manifest_path), after the upload;
\* main does not catch it
CreateManifestRemoveRaises ==
    /\ rpc = "manifest"
    /\ manifest_uploaded' = TRUE
    /\ Exit("exception")
    /\ UNCHANGED <<callArgs, poolVars, chunkVars, table_args, tables_to_generate,
                   table_idx, attempted, outcomes, successful_tables,
                   io_failed, all_ret>>

\* generate_iceberg_tables.main: --hive-metastore-uri (hive) or
\* --databricks-catalog-uri (databricks) was not given: return 1
CatalogUriMissing ==
    /\ rpc = "all_start"
    /\ generator = "iceberg"
    /\ Exit("1")
    /\ UNCHANGED <<callArgs, poolVars, chunkVars, table_args, tables_to_generate,
                   table_idx, attempted, outcomes, successful_tables,
                   io_failed, all_ret, manifest_uploaded>>

\* generate_benchmark_data.main: DataGenerator(...) raises (boto3.client or
\* setup_lookup_data in __init__); the call stands outside every try, the
\* exception leaves main before a table is selected
DataGeneratorInitRaises ==
    /\ rpc = "select"
    /\ generator = "parquet"
    /\ Exit("exception")
    /\ UNCHANGED <<callArgs, poolVars, chunkVars, table_args,
                   tables_to_generate, table_idx, attempted, outcomes,
                   successful_tables, io_failed, all_ret, manifest_uploaded>>

\* generate_iceberg_tables.main: IcebergTableGenerator(...) raises
\* (load_catalog in _setup_catalog); `except Exception` returns 1
GeneratorInitRaises ==
    /\ rpc = "all_start"
    /\ generator = "iceberg"
    /\ Exit("1")
    /\ UNCHANGED <<callArgs, poolVars, chunkVars, table_args, tables_to_generate,
                   table_idx, attempted, outcomes, successful_tables,
                   io_failed, all_ret, manifest_uploaded>>

\* IcebergTableGenerator.generate_all_tables up to its loop
IcebergAllStart ==
    /\ rpc = "all_start"
    /\ generator = "iceberg"
    /\ tables_to_generate' = IF table_args # << >> THEN table_args
                                                   ELSE ICEBERG_TABLES
    /\ successful_tables' = 0
    /\ rpc' = "iceberg_loop"
    /\ UNCHANGED <<callArgs, poolVars, chunkVars, table_args, table_idx,
                   attempted,
                   outcomes, io_failed, all_ret, manifest_uploaded,
                   exit_code>>

\* as IcebergTableStep, leaving the loop after a failed table
IcebergTableStepStopping ==
    /\ rpc = "iceberg_loop"
    /\ table_idx < Len(tables_to_generate)
    /\ LET t == tables_to_generate[table_idx + 1]
       IN  /\ table_name' = t
           /\ IF ~KnownTable(t)
              THEN /\ table_idx' = table_idx + 1
                   /\ UNCHANGED <<attempted, outcomes, successful_tables,
                                  io_failed>>
              ELSE \E o \in TableCallOutcomes(generator, t, target_size_gb) :
                    /\ attempted' = Append(attempted, t)
                    /\ outcomes' = Append(outcomes, o.ret)
                    /\ io_failed' = (io_failed \/ o.io)
                    /\ successful_tables' =
                           IF o.ret = "True" THEN successful_tables + 1
                                             ELSE successful_tables
                    /\ table_idx' = IF o.ret = "True"
                                    THEN table_idx + 1
                                    ELSE Len(tables_to_generate)
    /\ UNCHANGED <<generator, target_size_gb, num_workers, poolVars, chunkVars,
                   rpc, table_args, tables_to_generate, all_ret,
                   manifest_uploaded, exit_code>>

\* IcebergTableGenerator.generate_all_tables: one iteration of
\* `for table_name in tables_to_generate`
IcebergTableStep ==
    /\ rpc = "iceberg_loop"
    /\ table_idx < Len(tables_to_generate)
    /\ LET t == tables_to_generate[table_idx + 1]
       IN  /\ table_name' = t
           /\ table_idx' = table_idx + 1
           /\ IF ~KnownTable(t)
              THEN UNCHANGED <<attempted, outcomes, successful_tables,
                               io_failed>>
              ELSE \E o \in TableCallOutcomes(generator, t, target_size_gb) :
                    /\ attempted' = Append(attempted, t)
                    /\ outcomes' = Append(outcomes, o.ret)
                    /\ io_failed' = (io_failed \/ o.io)
                    /\ successful_tables' =
                           IF o.ret = "True" THEN successful_tables + 1
                                             ELSE successful_tables
    /\ UNCHANGED <<generator, target_size_gb, num_workers, poolVars, chunkVars,
                   rpc, table_args, tables_to_generate, all_ret,
                   manifest_uploaded, exit_code>>

\* generate_iceberg_table raises out of create_iceberg_table; the loop of
\* generate_all_tables does not catch it
IcebergTableRaises ==
    /\ rpc = "iceberg_loop"
    /\ table_idx < Len(tables_to_generate)
    /\ KnownTable(tables_to_generate[table_idx + 1])
    /\ table_name' = tables_to_generate[table_idx + 1]
    /\ all_ret' = "raised"
    /\ rpc' = "all_returned"
    /\ UNCHANGED <<generator, target_size_gb, num_workers, poolVars, chunkVars,
                   table_args, tables_to_generate, table_idx, attempted,
                   outcomes, successful_tables, io_failed,
                   manifest_uploaded, exit_code>>

\* return successful_tables == len(tables_to_generate)
IcebergAllReturn ==
    /\ rpc = "iceberg_loop"
    /\ table_idx = Len(tables_to_generate)
    /\ all_ret' = BoolStr(successful_tables = Len(tables_to_generate))
    /\ rpc' = "all_returned"
    /\ UNCHANGED <<callArgs, poolVars, chunkVars, table_args, tables_to_generate,
                   table_idx, attempted, outcomes, successful_tables,
                   io_failed, manifest_uploaded, exit_code>>

\* generate_iceberg_tables.main: return 0 on success, 1 otherwise
IcebergMainExit ==
    /\ rpc = "all_returned"
    /\ generator = "iceberg"
    /\ Exit(IF all_ret = "True" THEN "0" ELSE "1")
    /\ UNCHANGED <<callArgs, poolVars, chunkVars, table_args, tables_to_generate,
                   table_idx, attempted, outcomes, successful_tables,
                   io_failed, all_ret, manifest_uploaded>>

RunNext ==
    \/ HeadBucketOk
    \/ HeadBucketFails
    \/ DataGeneratorInitRaises
    \/ SelectTables
    \/ MainTableStep
    \/ AllTablesStep
    \/ MainAfterAllTables
    \/ CreateManifest
    \/ CreateManifestRaises
    \/ CreateManifestRemoveRaises
    \/ CatalogUriMissing
    \/ GeneratorInitRaises
    \/ IcebergAllStart
    \/ IcebergTableStep
    \/ IcebergTableRaises
    \/ IcebergAllReturn
    \/ IcebergMainExit

RunSpec == RunInit /\ [][RunNext]_vars

\* ------------------------------------------------------------------------
\* One call of the chunk function
\* ------------------------------------------------------------------------
\* tables whose lookup list a chunk generator of table t draws from
ForeignKeys(t) ==
    CASE t = "orders"    -> {"customers"}
      [] t = "lineitem"  -> {"orders", "products"}
      [] t = "products"  -> {"suppliers"}
      [] t = "inventory" -> {"products", "suppliers"}
      [] t = "events"    -> {"customers", "products"}
      [] OTHER           -> {}

\* len(self.<table>_ids) after setup_lookup_data
LookupSize(ref) ==
    CASE ref = "customers" -> num_customers
      [] ref = "products"  -> num_products
      [] ref = "suppliers" -> num_suppliers
      [] ref = "orders"    -> num_orders

\* Length of the list the column of table t that refers to ref is drawn
\* from: self.<ref>_ids, and self.product_ids + [None] for events.product_id
DrawListLen(t, ref) ==
    IF t = "events" /\ ref = "products" THEN LookupSize(ref) + 1
                                         ELSE LookupSize(ref)

\* Element at position p (from 0) of that list: the ids 1..len(self.<ref>_ids)
\* in order, then None, for which 0 stands
DrawListAt(t, ref, p) == IF p < LookupSize(ref) THEN p + 1 ELSE 0

\* np.random.choice(list, actual_size) draws each value of a column from the
\* whole list: the largest value of the column is any element of it, here
\* the one at position draw of 0..DrawSteps
DrawnMax(t, ref, draw) ==
    DrawListAt(t, ref, (draw * (DrawListLen(t, ref) - 1)) \div DrawSteps)

ChunkSizeOf(g) ==
    IF g = "parquet" THEN PARQUET_CHUNK_SIZE ELSE ICEBERG_CHUNK_SIZE

TargetRowsOf(g, t, gb) ==
    IF g = "parquet" THEN TargetRows(t, gb) ELSE IcebergTargetRows(t, gb)

FrameIds(g, t, k) ==
    IF g = "parquet" THEN ParquetIds(t, k, PARQUET_CHUNK_SIZE)
                     ELSE IcebergIds(t, k, ICEBERG_CHUNK_SIZE)

\* The function is about to be called for one of the chunk ids that the
\* table call submits, by whichever worker and in whatever order
ChunkInit ==
    /\ generator \in {"parquet", "iceberg"}
    /\ table_name \in TableNames
    /\ target_size_gb \in TargetSizes
    /\ num_workers \in 1..MaxWorkers
    /\ PoolAtRest
    /\ RunAtRest
    /\ cpc = "call"
    /\ fn_chunk_id \in
           0..(NumChunks(generator, table_name, target_size_gb) - 1)
    /\ first_id = 0
    /\ last_id = 0
    /\ fk_drawn = [ref \in RefTables |-> 0]
    /\ chunk_fault = FALSE
    /\ chunk_ret = "none"

\* process_chunk / process_table_chunk up to its return: the frame is
\* generated, each foreign-key column by a draw of its own, and written;
\* every exception is caught and turned into False
ProcessChunkCall ==
    /\ cpc = "call"
    /\ LET t   == table_name
           ids == FrameIds(generator, t, fn_chunk_id)
           ok  == ChunkCanSucceed(generator, t, fn_chunk_id)
       IN
        /\ first_id' = IF ok THEN ids[1] ELSE 0
        /\ last_id' = IF ok THEN ids[2] ELSE 0
        /\ IF ok /\ ids[2] > 0
           THEN \E draw \in [ForeignKeys(t) -> 0..DrawSteps] :
                    fk_drawn' = [ref \in RefTables |->
                                   IF ref \in ForeignKeys(t)
                                   THEN DrawnMax(t, ref, draw[ref])
                                   ELSE 0]
           ELSE UNCHANGED fk_drawn
        /\ \/ /\ chunk_ret' = BoolStr(ok)
              /\ UNCHANGED chunk_fault
           \/ /\ ChunkDoesIO(generator, t, fn_chunk_id)
              /\ chunk_fault' = TRUE
              /\ chunk_ret' = "False"
    /\ cpc' = "returned"
    /\ UNCHANGED <<callArgs, poolVars, runVars, fn_chunk_id>>

ChunkNext == ProcessChunkCall

ChunkSpec == ChunkInit /\ [][ChunkNext]_vars

\* ------------------------------------------------------------------------
\* Properties
\* ------------------------------------------------------------------------
TrueChunks == {k \in DOMAIN result : result[k] = "True"}
FalseChunks == {k \in DOMAIN result : result[k] = "False"}
TrueOutcomes == {i \in 1..Len(outcomes) : outcomes[i] = "True"}
FalseOutcomes == {i \in 1..Len(outcomes) : outcomes[i] = "False"}

\* C1: within one table call every chunk id of 0..num_chunks-1 is submitted
\* to the pool at most once and processed at most once, exactly once each by
\* the time the call returns; a chunk whose processing returned False stays
\* finished and is never processed again.
C1_ExactlyOnce ==
    /\ [](\A k \in DOMAIN status :
            /\ submit_count[k] <= 1
            /\ process_count[k] <= 1
            /\ (pc = "returned" => submit_count[k] = 1 /\ process_count[k] = 1))
    /\ [][\A k \in DOMAIN status :
            result[k] = "False" =>
                /\ status'[k] = "done"
                /\ result'[k] = "False"
                /\ process_count'[k] = process_count[k]]_vars

C1_Witness ==
    /\ pc = "returned"
    /\ num_chunks >= 2
    /\ FalseChunks # {}
    /\ \A k \in ChunkIds : process_count[k] = 1

\* C2: at every moment of a table call the number of chunks being processed
\* (generate, serialize, upload or append in progress) is at most
\* num_workers, in both generators.
C2_BoundedConcurrency == Cardinality(Running) <= num_workers

C2_Witness ==
    /\ num_workers >= 2
    /\ Cardinality(Running) = num_workers
    /\ \E k \in DOMAIN status : status[k] = "queued"

\* C3: a failed chunk cancels or skips no other chunk: once the chunks are
\* being submitted the call eventually returns, and when it has returned
\* every one of the num_chunks chunks was processed and has finished, every
\* future was yielded and the progress counter stands at num_chunks.
C3_FanIn ==
    /\ [](pc = "returned" =>
            /\ \A k \in ChunkIds : status[k] = "done" /\ process_count[k] = 1
            /\ yielded = ChunkIds
            /\ pbar = num_chunks)
    /\ (pc = "submit" ~> pc = "returned")

C3_Witness ==
    /\ pc = "returned"
    /\ pbar = num_chunks
    /\ \E j, k \in ChunkIds :
        j < k /\ result[j] = "False" /\ result[k] = "True"

\* C4 as stated: in the chunk-upload path the verdict is a coarse threshold,
\* so a table call whose counted successes reach the threshold the
\* repository names (80% of the chunks or more) is reported successful
\* although a chunk failed.
C4_CoarseThreshold ==
    (generator = "parquet" /\ pc = "returned" /\ num_chunks > 0
        /\ 5 * completed >= 4 * num_chunks)
    => success = "True"

\* C4 amended: in the chunk-upload path a failed chunk is only counted (in
\* the progress counter, not in completed) and the table is reported
\* successful exactly when every one of its chunks succeeded.
C4_AllChunksRequired ==
    (generator = "parquet" /\ pc = "returned") =>
        /\ (success = "True") <=> (\A k \in ChunkIds : result[k] = "True")
        /\ pbar - completed = Cardinality(FalseChunks)

C4_Witness ==
    /\ generator = "parquet"
    /\ pc = "returned"
    /\ num_chunks = 5
    /\ completed = 4
    /\ success = "False"

\* C5: generate_iceberg_table reports the table successful exactly when at
\* least 80% of its chunks completed successfully, the case of exactly 80%
\* included.
C5_AtLeast80Percent ==
    (generator = "iceberg" /\ pc = "returned") =>
        ((success = "True") <=> (5 * completed >= 4 * num_chunks))

\* C6: completed stays within 0..num_chunks and counts the yielded futures
\* that hold True, the progress counter counts every yielded future; when
\* the call returns completed is the number of chunks that returned True.
C6_CompletedCountsTrue ==
    /\ 0 <= completed
    /\ completed <= num_chunks
    /\ completed = Cardinality(TrueChunks \cap yielded)
    /\ pbar = Cardinality(yielded)
    /\ pc = "returned" =>
        /\ completed = Cardinality(TrueChunks)
        /\ pbar = completed + Cardinality(FalseChunks)

C6_Witness ==
    /\ pc = "returned"
    /\ completed >= 1
    /\ completed < num_chunks
    /\ pbar = num_chunks

\* C7: when no write and no upload fails, DataGenerator.generate_all_tables
\* processes all seven tables of TABLE_SIZES and returns True, for any
\* positive target size.
C7_AllSevenTables ==
    (generator = "parquet" /\ rpc = "all_returned" /\ ~io_failed
        /\ target_size_gb > 0)
    => (all_ret = "True" /\ attempted = TABLE_SIZES)

\* C8 as stated: when DataGenerator.generate_all_tables finds that a table
\* failed it continues with the remaining tables, so every table of
\* TABLE_SIZES is attempted in each run.
C8_EveryTableAttempted ==
    (generator = "parquet" /\ rpc = "all_returned") => attempted = TABLE_SIZES

\* C8 amended: DataGenerator.generate_all_tables attempts the tables in the
\* order of TABLE_SIZES and returns False at the first failed one: a table
\* is attempted only when all tables before it succeeded, and True is
\* returned only when all seven were attempted and succeeded.
C8_StopsAtFirstFailure ==
    (generator = "parquet" /\ table_args = << >>) =>
        /\ attempted = SubSeq(TABLE_SIZES, 1, Len(attempted))
        /\ Len(outcomes) = Len(attempted)
        /\ \A i \in 1..(Len(outcomes) - 1) : outcomes[i] = "True"
        /\ all_ret = "False" => FalseOutcomes = {Len(outcomes)}
        /\ all_ret = "True" => (attempted = TABLE_SIZES /\ FalseOutcomes = {})
        /\ FalseOutcomes # {} => rpc \in {"all_returned", "exited"}

C8_Witness ==
    /\ generator = "parquet"
    /\ rpc = "all_returned"
    /\ all_ret = "False"
    /\ Len(attempted) >= 2
    /\ Len(attempted) < Len(TABLE_SIZES)

\* C9: when IcebergTableGenerator.generate_all_tables returns, it has
\* attempted every known table of its list exactly once and in list order,
\* tables after a failed one included, and it returns True exactly when the
\* number of successful tables equals the length of the requested list.
C9_IcebergAttemptsAll ==
    (generator = "iceberg" /\ all_ret \in {"True", "False"}) =>
        /\ attempted = SelectSeq(tables_to_generate, KnownTable)
        /\ Len(outcomes) = Len(attempted)
        /\ (all_ret = "True") <=>
               (Cardinality(TrueOutcomes) = Len(tables_to_generate))

C9_Witness ==
    /\ generator = "iceberg"
    /\ all_ret = "False"
    /\ Len(attempted) >= 2
    /\ outcomes[1] = "False"
    /\ outcomes[Len(outcomes)] = "True"

\* C10: in generate_benchmark_data.main the manifest is uploaded only after
\* every table of tables_to_generate was generated and reported successful;
\* once a table has failed no manifest is uploaded and main returns 1; main
\* returns 0 only after the manifest upload.
C10_ManifestLast ==
    /\ manifest_uploaded =>
        /\ generator = "parquet"
        /\ attempted = tables_to_generate
        /\ Len(attempted) >= 1
        /\ Len(outcomes) = Len(attempted)
        /\ FalseOutcomes = {}
    /\ (generator = "parquet" /\ exit_code = "0") => manifest_uploaded
    /\ (generator = "parquet" /\ FalseOutcomes # {}) =>
        /\ ~manifest_uploaded
        /\ rpc = "exited" => exit_code = "1"

C10_Witness ==
    /\ manifest_uploaded
    /\ exit_code = "0"
    /\ Len(attempted) >= 2

\* C11: the object uploaded for chunk k of table T has the key
\* <prefix>/T/T_chunk_<k zero-padded to 6 digits>.parquet and the local file
\* lies under /tmp; distinct (table, chunk id) pairs have distinct keys and
\* distinct local paths, so the chunks that workers of one table call process
\* never share a local file or a key: there are as many files and keys as
\* chunks that wrote one.
C11_S3Layout ==
    LET digit(d) == DigitChars[d + 1]
        sixDigits(k) ==
            digit((k \div 100000) % 10) \o digit((k \div 10000) % 10)
            \o digit((k \div 1000) % 10) \o digit((k \div 100) % 10)
            \o digit((k \div 10) % 10) \o digit(k % 10)
        layout(p, t, k) ==
            p \o "/" \o t \o "/" \o t \o "_chunk_" \o sixDigits(k) \o ".parquet"
        sampleIds == {0, 9, 10, 99, 100, 1199, 99999, 100000, 999999, 1000000}
        pairs == TableNames \X sampleIds
    IN
    /\ generator = "parquet" =>
           Cardinality(s3_objects) >=
               Cardinality({k \in ChunkIds :
                               status[k] = "remove" \/ result[k] = "True"})
    /\ Cardinality(local_files) >=
           Cardinality({k \in ChunkIds :
                           status[k] \in {"upload_file", "remove"}})
    /\ pc = "returned" =>
        /\ \A k \in ChunkIds :
            /\ S3Key(S3_PREFIX, table_name, k)
                   = layout(S3_PREFIX, table_name, k)
            /\ SubSeq(LocalPath(table_name, k), 1, 5) = "/tmp/"
        /\ s3_objects \subseteq
               {layout(S3_PREFIX, table_name, k) : k \in ChunkIds}
        /\ local_files \subseteq {LocalPath(table_name, k) : k \in ChunkIds}
        /\ \A k \in TrueChunks :
               generator = "parquet" =>
                   layout(S3_PREFIX, table_name, k) \in s3_objects
    /\ pc = "start" =>
        /\ \A k \in sampleIds :
            /\ k < 1000000 => FormatChunkId(k) = sixDigits(k)
            /\ k >= 1000000 => FormatChunkId(k) = Decimal(k)
        /\ \A a, b \in pairs :
            a # b =>
                /\ S3Key(S3_PREFIX, a[1], a[2]) # S3Key(S3_PREFIX, b[1], b[2])
                /\ LocalPath(a[1], a[2]) # LocalPath(b[1], b[2])

C11_Witness ==
    /\ generator = "parquet"
    /\ Cardinality({k \in ChunkIds : status[k] = "upload_file"}) >= 2
    /\ Cardinality(local_files) >= 3
    /\ Cardinality(s3_objects) >= 1

\* C12: the size ratios of the seven tables sum to exactly 100%, so the
\* target rows of the seven table calls of a run over all tables add up to
\* the rows of the total target size; TABLE_SIZES and ICEBERG_TABLES define
\* the same seven table names with the same ratio per table.
C12_RatiosSumToWhole ==
    LET names(seq) == {seq[i] : i \in 1..Len(seq)}
        total(r, seq) == r[seq[1]] + r[seq[2]] + r[seq[3]] + r[seq[4]]
                         + r[seq[5]] + r[seq[6]] + r[seq[7]]
    IN
    /\ Len(TABLE_SIZES) = 7
    /\ Len(ICEBERG_TABLES) = 7
    /\ Cardinality(names(TABLE_SIZES)) = 7
    /\ names(TABLE_SIZES) = names(ICEBERG_TABLES)
    /\ DOMAIN size_ratio = names(TABLE_SIZES)
    /\ DOMAIN iceberg_size_ratio = names(ICEBERG_TABLES)
    /\ \A t \in names(TABLE_SIZES) : size_ratio[t] = iceberg_size_ratio[t]
    /\ total(size_ratio, TABLE_SIZES) = 100
    /\ total(iceberg_size_ratio, ICEBERG_TABLES) = 100
    /\ (table_args = << >> /\ Len(attempted) = 7) =>
           total([t \in TableNames |->
                     TargetRowsOf(generator, t, target_size_gb)], attempted)
               = target_size_gb * estimated_rows_per_gb

\* C13: every foreign-key value that a chunk of an Iceberg table writes
\* (orders.customer_id, lineitem.order_id, lineitem.product_id,
\* products.supplier_id, inventory.product_id, inventory.supplier_id,
\* events.customer_id) is the primary key of a row that one of the
\* num_chunks chunks of the referenced table generates at the same target
\* size.
C13_ReferentialIntegrity ==
    (generator = "iceberg" /\ cpc = "returned" /\ chunk_ret = "True") =>
        \A ref \in ForeignKeys(table_name) :
            (fk_drawn[ref] > 0
                /\ ~(table_name = "events" /\ ref = "products")) =>
            \E k \in 0..(NumChunks(generator, ref, target_size_gb) - 1) :
                LET ids == FrameIds(generator, ref, k)
                IN  ids[1] <= fk_drawn[ref] /\ fk_drawn[ref] <= ids[2]

\* C14: for every table of ICEBERG_TABLES create_iceberg_table builds exactly
\* one partition field for each column of the table's partition_spec, in the
\* listed order: the partition spec has as many fields as the configuration
\* lists and no configured column is dropped.
C14_OneFieldPerColumn ==
    (generator = "iceberg" /\ pc \notin {"start", "raised"}) =>
        /\ Len(partition_fields) = Len(partition_spec(table_name))
        /\ \A i \in 1..Len(partition_fields) :
            /\ partition_fields[i].field_id = 1000 + (i - 1)
            /\ partition_fields[i].source_id =
                   SourceId(iceberg_schema, partition_spec(table_name)[i])

\* C15: the converted Iceberg schema of a table has the column names of its
\* arrow schema in the same order with field ids 1..n; every column has one
\* of the types int64, int32, string, bool, float32, float64, date32,
\* timestamp, decimal128 and is mapped to Long, Integer, String, Boolean,
\* Float, Double, Date, Timestamp, Decimal with the same precision and
\* scale, so the string fallback is never taken for a configured column.
C15_TypeMapping ==
    LET dedicated(ty) ==
            CASE ty = "int64"      -> "LongType"
              [] ty = "int32"      -> "IntegerType"
              [] ty = "string"     -> "StringType"
              [] ty = "bool"       -> "BooleanType"
              [] ty = "float32"    -> "FloatType"
              [] ty = "float64"    -> "DoubleType"
              [] ty = "date32"     -> "DateType"
              [] ty = "timestamp"  -> "TimestampType"
              [] ty = "decimal128" -> "DecimalType"
              [] OTHER             -> "fallback"
        listed == {"int64", "int32", "string", "bool", "float32", "float64",
                   "date32", "timestamp", "decimal128"}
        used == UNION {{arrow_schema(t)[i].type : i \in 1..Len(arrow_schema(t))}
                          : t \in TableNames}
    IN
    /\ pc = "start" => used = listed
    /\ (generator = "iceberg" /\ pc \notin {"start", "raised"}) =>
        LET a == arrow_schema(table_name) IN
        /\ Len(iceberg_schema) = Len(a)
        /\ \A i \in 1..Len(a) :
            /\ iceberg_schema[i].field_id = i
            /\ iceberg_schema[i].name = a[i].name
            /\ a[i].type \in listed
            /\ iceberg_schema[i].field_type.type = dedicated(a[i].type)
            /\ iceberg_schema[i].field_type.precision = a[i].precision
            /\ iceberg_schema[i].field_type.scale = a[i].scale
            /\ a[i].type = "decimal128" => a[i].precision > 0

C15_Witness ==
    /\ generator = "iceberg"
    /\ pc = "collect"
    /\ table_name = "orders"
    /\ Len(iceberg_schema) = 15
    /\ \E i \in 1..Len(iceberg_schema) :
        iceberg_schema[i].field_type = IcebergType("DecimalType", 12, 2)
    /\ \E i \in 1..Len(iceberg_schema) :
        iceberg_schema[i].field_type = IcebergType("DecimalType", 8, 2)

\* C16: num_chunks is the ceiling of target_rows / CHUNK_SIZE, that is
\* target_rows <= num_chunks * CHUNK_SIZE < target_rows + CHUNK_SIZE; the
\* Iceberg path takes the maximum of 1 and this ceiling; in the parquet path
\* target_rows = 0 gives num_chunks = 0, and the table call then writes and
\* uploads nothing and returns True.
C16_ChunkArithmetic ==
    pc \notin {"start", "raised"} =>
        /\ generator = "parquet" =>
            LET target_rows == TargetRows(table_name, target_size_gb) IN
            /\ target_rows <= num_chunks * PARQUET_CHUNK_SIZE
            /\ num_chunks * PARQUET_CHUNK_SIZE < target_rows + PARQUET_CHUNK_SIZE
            /\ target_rows = 0 =>
                /\ num_chunks = 0
                /\ local_files = {} /\ s3_objects = {}
                /\ pc = "returned" => (success = "True" /\ completed = 0)
        /\ generator = "iceberg" =>
            LET target_rows == IcebergTargetRows(table_name, target_size_gb) IN
            /\ num_chunks >= 1
            /\ target_rows <= num_chunks * ICEBERG_CHUNK_SIZE
            /\ target_rows > 0 =>
                   num_chunks * ICEBERG_CHUNK_SIZE
                       < target_rows + ICEBERG_CHUNK_SIZE
            /\ target_rows = 0 => num_chunks = 1

C16_Witness ==
    /\ pc = "returned"
    /\ generator = "parquet"
    /\ num_chunks = 3
    /\ TargetRows(table_name, target_size_gb) = 2400000

\* C17: chunk k of chunk size s yields exactly the ids k*s+1 .. (k+1)*s,
\* truncated at the table's cap where one applies (no id when the chunk
\* starts beyond the cap); its ids are disjoint from the ids of every other
\* chunk of the table and start right after the ids of chunk k-1, so no id
\* is generated twice, in whatever order the chunks run, and the ids of
\* chunks 0..n-1 are the gap-free range 1..n*s (or 1..cap).
C17_IdsPartitionedByChunk ==
    cpc = "returned" =>
        LET g == generator
            t == table_name
            k == fn_chunk_id
            s == ChunkSizeOf(g)
            n == NumChunks(g, t, target_size_gb)
            cap == IF g = "parquet" THEN ParquetCap(t) ELSE IcebergCap(t)
            whole == IF cap > 0 THEN Min(n * s, cap) ELSE n * s
            lo == k * s + 1
            hi == IF cap > 0 THEN Min((k + 1) * s, cap) ELSE (k + 1) * s
        IN
        /\ IF lo <= hi THEN first_id = lo /\ last_id = hi
                        ELSE first_id = 0 /\ last_id = 0
        /\ last_id > 0 =>
            /\ \A j \in (0..(n - 1)) \ {k} :
                   LET other == FrameIds(g, t, j)
                   IN  other[2] < first_id \/ last_id < other[1]
            /\ k = 0 => first_id = 1
            /\ k > 0 => FrameIds(g, t, k - 1)[2] = first_id - 1
            /\ (k = n - 1 \/ FrameIds(g, t, k + 1) = <<0, 0>>) =>
                   last_id = whole

\* C18: customers in the parquet generator and customers, products and
\* suppliers in the Iceberg generator never produce an id above
\* num_customers / num_products / num_suppliers; a chunk that starts beyond
\* the cap yields an empty frame and its call still returns True (unless
\* the write or the upload of the empty parquet file fails), and the frames
\* of the num_chunks chunks of the table hold
\* min(num_chunks * CHUNK_SIZE, cap) rows.
C18_CappedTables ==
    LET RECURSIVE FrameRows(_, _, _)
        FrameRows(g, t, n) ==
            IF n = 0 THEN 0
            ELSE LET ids == FrameIds(g, t, n - 1)
                 IN  (IF ids[2] > 0 THEN ids[2] - ids[1] + 1 ELSE 0)
                         + FrameRows(g, t, n - 1)
    IN
    (/\ cpc = "returned"
     /\ table_name \in IF generator = "parquet"
                       THEN {"customers"}
                       ELSE {"customers", "products", "suppliers"}) =>
        LET s == ChunkSizeOf(generator)
            n == NumChunks(generator, table_name, target_size_gb)
            cap == LookupSize(table_name)
        IN
        /\ last_id <= cap
        /\ fn_chunk_id * s >= cap =>
               /\ first_id = 0
               /\ last_id = 0
               /\ ~chunk_fault => chunk_ret = "True"
               /\ generator = "iceberg" => ~chunk_fault
        /\ FrameRows(generator, table_name, n) = Min(n * s, cap)

C18_Witness ==
    /\ generator = "parquet"
    /\ table_name = "customers"
    /\ cpc = "returned"
    /\ target_size_gb = 250
    /\ fn_chunk_id = 12
    /\ last_id = 0
    /\ ~chunk_fault
    /\ chunk_ret = "True"

\* C19: for every chunk that generate_and_upload_table submits for the
\* products, suppliers or orders table, the row count actual_size =
\* end_id - start_id of the parquet chunk generator is non-negative, so a
\* chunk past the table's id cap never makes chunk generation fail.
C19_NonNegativeActualSize ==
    (generator = "parquet" /\ table_name \in {"products", "suppliers", "orders"})
    => \A k \in DOMAIN status :
           status[k] # "unsubmitted" =>
               /\ ParquetActualSize(table_name, k, PARQUET_CHUNK_SIZE) >= 0
               /\ k * PARQUET_CHUNK_SIZE >= ParquetCap(table_name) =>
                      ParquetGenerateOk(table_name, k, PARQUET_CHUNK_SIZE)

\* C20: process_chunk performs generate, write local parquet, upload to S3,
\* remove local file in this order and ends with True or False, never with
\* an exception: True only after all four steps succeeded (the object is
\* uploaded and the local file removed), False when a step raised, the
\* steps after the failing one being skipped.
C20_ProcessChunk ==
    /\ [](generator = "parquet" =>
            \A k \in DOMAIN status :
                LET key == S3Key(S3_PREFIX, table_name, k)
                    path == LocalPath(table_name, k)
                IN
                /\ (status[k] = "done") <=> (result[k] \in {"True", "False"})
                /\ result[k] = "True" =>
                       (key \in s3_objects /\ path \notin local_files)
                /\ status[k] \in {"unsubmitted", "queued", "generate"} =>
                       path \notin local_files
                /\ status[k] \in {"unsubmitted", "queued", "generate",
                                  "to_parquet", "upload_file"} =>
                       key \notin s3_objects
                /\ status[k] = "upload_file" => path \in local_files
                /\ status[k] = "remove" =>
                       (key \in s3_objects /\ path \in local_files))
    /\ [][generator = "parquet" =>
            \A k \in DOMAIN status \cap DOMAIN status' :
                status'[k] # status[k] =>
                    \/ <<status[k], status'[k]>> \in
                           {<<"unsubmitted", "queued">>,
                            <<"queued", "generate">>,
                            <<"generate", "to_parquet">>,
                            <<"to_parquet", "upload_file">>,
                            <<"upload_file", "remove">>}
                    \/ /\ status[k] = "remove"
                       /\ status'[k] = "done"
                       /\ s3_objects' = s3_objects
                    \/ /\ status[k] \in {"generate", "to_parquet", "upload_file"}
                       /\ status'[k] = "done"
                       /\ result'[k] = "False"
                       /\ s3_objects' = s3_objects
                       /\ status[k] # "to_parquet" => local_files' = local_files
         ]_vars

C20_Witness ==
    /\ generator = "parquet"
    /\ pc = "returned"
    /\ TrueChunks # {}
    /\ \E k \in FalseChunks :
        /\ LocalPath(table_name, k) \in local_files
        /\ S3Key(S3_PREFIX, table_name, k) \notin s3_objects

\* C21: after process_chunk has returned for a chunk, with True or with
\* False, the chunk's local file /tmp/<table>_chunk_<id>.parquet no longer
\* exists, so after the fan-in of a table call no local chunk file of that
\* table remains.
C21_LocalFilesCleanedUp ==
    generator = "parquet" =>
        /\ \A k \in DOMAIN status :
               status[k] = "done" =>
                   LocalPath(table_name, k) \notin local_files
        /\ pc = "returned" => local_files = {}

TypeOK ==
    /\ pc \in {"start", "submit", "collect", "returned", "raised"}
    /\ num_chunks \in 0..(MaxChunks + 1)
    /\ DOMAIN status = ChunkIds
    /\ success \in {"none", "True", "False"}

====
